---------------------------- MODULE Spec2Model ----------------------------
(***************************************************************************)
(* Model of the lobbying-registrations ETL (src/etl): the plain direct     *)
(* connection pipeline (lobbying.py), the fallback pipeline with the       *)
(* ConnectionManager (lobbying_enhanced.py), the HTTP data API pipeline    *)
(* (lobbying_rest.py) and the heuristic row filter they share.             *)
(*                                                                         *)
(* Text is modelled as a sequence of one-character strings, so that the    *)
(* substring test of the date-column search and the character classes of   *)
(* snake_case are computed, not assumed.  A field of a data row is a       *)
(* record: free text, or numerals joined by one separator character        *)
(* ("2024-03-01" is sep "-" and nums <<2024, 3, 1>>; a year numeral is     *)
(* written without padding; month and day numerals may be zero padded,     *)
(* which strptime reads the same).  A character outside ASCII is written   *)
(* by its code point: "U+0130" is one character.                           *)
(*                                                                         *)
(* The database server, the HTTP data API and the file host are the        *)
(* environment: each call to them succeeds or fails nondeterministically.  *)
(* cur.copy(copy_sql, buffer) is modelled as the bulk-copy submission of   *)
(* the buffer's rows in the open transaction.                              *)
(***************************************************************************)
EXTENDS Integers, Sequences, FiniteSets, TLC

(***************************************************************************)
(* Bounds of the model.                                                    *)
(***************************************************************************)
\* Longest source file (data rows) the row-filter specification draws.
MaxRows == 2

(***************************************************************************)
(* snake_case                                                              *)
(***************************************************************************)
\* The ASCII letters, in alphabetical order.
LowerLetters ==
    << "a", "b", "c", "d", "e", "f", "g", "h", "i", "j", "k", "l", "m",
       "n", "o", "p", "q", "r", "s", "t", "u", "v", "w", "x", "y", "z" >>

UpperLetters ==
    << "A", "B", "C", "D", "E", "F", "G", "H", "I", "J", "K", "L", "M",
       "N", "O", "P", "Q", "R", "S", "T", "U", "V", "W", "X", "Y", "Z" >>

Digits == {"0", "1", "2", "3", "4", "5", "6", "7", "8", "9"}

WhiteSpace == {" ", "\t"}

IsLower(c) == \E i \in 1..Len(LowerLetters) : LowerLetters[i] = c

IsUpper(c) == \E i \in 1..Len(UpperLetters) : UpperLetters[i] = c

\* LATIN CAPITAL LETTER I WITH DOT ABOVE, the one character whose lower case
\* is two characters: "i" and COMBINING DOT ABOVE, a mark, which is neither
\* \w nor \s.
DottedI == "U+0130"

DotAbove == "U+0307"

\* str.lower() on one ASCII character.
LowerChar(c) ==
    IF IsUpper(c)
    THEN LowerLetters[CHOOSE i \in 1..Len(UpperLetters) : UpperLetters[i] = c]
    ELSE c

\* \w of the regular expressions: letters, digits and the underscore.
IsWordChar(c) ==
    IsLower(c) \/ IsUpper(c) \/ c \in Digits \cup {"_"} \/ c = DottedI

\* \s of the regular expressions.
IsSpaceChar(c) == c \in WhiteSpace

\* re.sub(r'[^\w\s]', '_', name)
SubSpecial(name) ==
    [i \in 1..Len(name) |->
        IF ~IsWordChar(name[i]) /\ ~IsSpaceChar(name[i]) THEN "_" ELSE name[i]]

RECURSIVE SubSpaces(_)
\* re.sub(r'\s+', '_', name): every maximal run of whitespace becomes one "_".
SubSpaces(name) ==
    IF name = <<>> THEN <<>>
    ELSE IF IsSpaceChar(Head(name))
         THEN IF Len(name) > 1 /\ IsSpaceChar(name[2])
              THEN SubSpaces(Tail(name))
              ELSE <<"_">> \o SubSpaces(Tail(name))
         ELSE <<Head(name)>> \o SubSpaces(Tail(name))

RECURSIVE LowerName(_)
\* name.lower()
LowerName(name) ==
    IF name = <<>> THEN <<>>
    ELSE (IF Head(name) = DottedI THEN <<"i", DotAbove>>
          ELSE <<LowerChar(Head(name))>>) \o LowerName(Tail(name))

RECURSIVE SubUnderscores(_)
\* re.sub(r'_+', '_', name): every maximal run of "_" becomes one "_".
SubUnderscores(name) ==
    IF name = <<>> THEN <<>>
    ELSE IF Head(name) = "_" /\ Len(name) > 1 /\ name[2] = "_"
         THEN SubUnderscores(Tail(name))
         ELSE <<Head(name)>> \o SubUnderscores(Tail(name))

RECURSIVE StripUnderscores(_)
\* name.strip('_')
StripUnderscores(name) ==
    IF name = <<>> THEN <<>>
    ELSE IF Head(name) = "_" THEN StripUnderscores(Tail(name))
    ELSE IF name[Len(name)] = "_"
         THEN StripUnderscores(SubSeq(name, 1, Len(name) - 1))
         ELSE name

snake_case(name) ==
    StripUnderscores(SubUnderscores(LowerName(SubSpaces(SubSpecial(name)))))

\* snake_headers = [snake_case(h) for h in headers]
SnakeHeaders(raw) == [i \in 1..Len(raw) |-> snake_case(raw[i])]

(***************************************************************************)
(* The date column: the first header that contains one of the date terms.  *)
(***************************************************************************)
DateTerms == << <<"d", "a", "t", "e">>,
                <<"c", "r", "e", "a", "t", "e", "d">>,
                <<"r", "e", "g", "i", "s", "t", "e", "r", "e", "d">>,
                <<"f", "i", "l", "e", "d">> >>

\* `term in text` of Python: term is a contiguous substring of text.
Contains(text, term) ==
    \E i \in 1..(Len(text) - Len(term) + 1) :
        SubSeq(text, i, i + Len(term) - 1) = term

\* any(date_term in header.lower() for date_term in [...])
IsDateHeader(header) ==
    \E k \in 1..Len(DateTerms) : Contains(LowerName(header), DateTerms[k])

\* date_col_idx: index (from 1) of the first date header, 0 for None.
DateColIdx(hdrs) ==
    IF \E i \in 1..Len(hdrs) : IsDateHeader(hdrs[i])
    THEN CHOOSE i \in 1..Len(hdrs) :
            /\ IsDateHeader(hdrs[i])
            /\ \A j \in 1..(i - 1) : ~IsDateHeader(hdrs[j])
    ELSE 0

(***************************************************************************)
(* Dates: datetime.strptime under the four formats, and the cutoff.        *)
(***************************************************************************)
Text(t) == [sep |-> "", nums |-> <<>>, txt |-> t]

DateText(s, a, b, c) == [sep |-> s, nums |-> <<a, b, c>>, txt |-> ""]

\* ['%Y-%m-%d', '%Y/%m/%d', '%m/%d/%Y', '%d/%m/%Y']: the separator and the
\* positions of year, month and day among the three numerals.
DateFormats == << [sep |-> "-", y |-> 1, m |-> 2, d |-> 3],
                  [sep |-> "/", y |-> 1, m |-> 2, d |-> 3],
                  [sep |-> "/", y |-> 3, m |-> 1, d |-> 2],
                  [sep |-> "/", y |-> 3, m |-> 2, d |-> 1] >>

IsLeap(y) == (y % 4 = 0) /\ ((y % 100 # 0) \/ (y % 400 = 0))

DaysInMonth(y, m) ==
    IF m = 2 THEN (IF IsLeap(y) THEN 29 ELSE 28)
    ELSE IF m \in {4, 6, 9, 11} THEN 30 ELSE 31

RECURSIVE DaysBeforeMonth(_, _)
DaysBeforeMonth(y, m) ==
    IF m = 1 THEN 0 ELSE DaysBeforeMonth(y, m - 1) + DaysInMonth(y, m - 1)

\* date.toordinal(): days since 0001-01-01, counted from 1.
Ordinal(y, m, d) ==
    (y - 1) * 365 + ((y - 1) \div 4) - ((y - 1) \div 100) + ((y - 1) \div 400)
        + DaysBeforeMonth(y, m) + d

\* datetime.strptime(date_str, fmt): <<>> for ValueError, else <<instant>>;
\* the instant is midnight (tod 0) of the parsed day.  %Y takes exactly
\* four digits, %m 1..12, %d 1..31, and the day must exist in the month.
Strptime(date_str, fmt) ==
    IF date_str.sep # fmt.sep \/ Len(date_str.nums) # 3 THEN <<>>
    ELSE LET y == date_str.nums[fmt.y]
             m == date_str.nums[fmt.m]
             d == date_str.nums[fmt.d]
         IN  IF /\ y \in 1000..9999
                /\ m \in 1..12
                /\ d \in 1..31
                /\ d <= DaysInMonth(y, m)
             THEN << [day |-> Ordinal(y, m, d), tod |-> 0] >>
             ELSE <<>>

RECURSIVE ParseFrom(_, _)
\* The for/else over the formats: the first format that parses wins.
ParseFrom(date_str, k) ==
    IF k > Len(DateFormats) THEN <<>>
    ELSE IF Strptime(date_str, DateFormats[k]) # <<>>
         THEN Strptime(date_str, DateFormats[k])
         ELSE ParseFrom(date_str, k + 1)

ParseDate(date_str) == ParseFrom(date_str, 1)

\* timedelta(days=730)
CutoffDays == 730

\* datetime >= datetime; tod orders the instants of one day.
InstantGe(a, b) == a.day > b.day \/ (a.day = b.day /\ a.tod >= b.tod)

\* The comparison written as row_date > CUTOFF_DATE.
OnOrAfter_strict(row_date, cutoff) == ~InstantGe(cutoff, row_date)

\* row_date >= CUTOFF_DATE
OnOrAfter(row_date, cutoff) == InstantGe(row_date, cutoff)

\* CUTOFF_DATE = datetime.now() - timedelta(days=730)
CutoffOf(t) == [day |-> t.day - CutoffDays, tod |-> t.tod]


(***************************************************************************)
(* Inputs: source files, header rows, run instants, destination tables.    *)
(***************************************************************************)
\* Header rows of the downloaded table, as written in the file.
RawHeaderRows ==
    { << <<"R", "e", "g", " ", "I", "D">>,
         <<"E", "f", "f", "e", "c", "t", "i", "v", "e", " ", "D", "a", "t", "e">> >>,
      << <<"R", "E", "G", "_", "I", "D", "_", "E", "N", "R">>,
         <<"C", "o", "u", "n", "t", "r", "y", "/", "P", "a", "y", "s">>,
         <<"P", "o", "s", "t", "e", "d", "-", "D", "a", "t", "e">> >>,
      << <<"R", "e", "g", " ", "I", "D">>,
         <<"C", "o", "u", "n", "t", "r", "y">> >> }

\* datetime.now() when the module is imported: 2026-03-01, at midnight
\* exactly (tod 0) or later in the day (tod 1).  730 days earlier is
\* 2024-03-01.
Nows == { [day |-> Ordinal(2026, 3, 1), tod |-> t] : t \in {0, 1} }

\* Values of the date column that the row-filter specification draws: the
\* cutoff day, its neighbours and a day that does not exist, under each
\* format; texts no format reads; the empty text and the literal "null".
DateValues ==
    { DateText("-", 2024, 3, 1), DateText("-", 2024, 2, 29),
      DateText("-", 2024, 3, 2), DateText("-", 2023, 2, 29),
      DateText("-", 2024, 13, 1), DateText("-", 3, 1, 2024),
      DateText("/", 2024, 3, 1), DateText("/", 3, 1, 2024),
      DateText("/", 3, 2, 2024), DateText("/", 29, 2, 2024),
      DateText("/", 3, 1, 24),
      Text(""), Text("null") }

\* Data rows of the row-filter specification: two fields, the second drawn
\* from DateValues; a row of one field; an empty row (a blank line).
FilterRows ==
    { <<Text("R1"), v>> : v \in DateValues } \cup { <<Text("R1")>>, <<>> }

\* Data rows of the pipeline specification: each row carries the same date
\* in its second and third field, so that it is dated under every header row.
RowRecent == <<Text("R1"), DateText("-", 2024, 3, 2), DateText("-", 2024, 3, 2)>>

RowOld == <<Text("R2"), DateText("-", 2019, 1, 1), DateText("-", 2019, 1, 1)>>

RunRows == {RowRecent, RowOld}

\* Longest source file (data rows) the pipeline specification draws.
MaxRunRows == 3

SeqsUpTo(S, n) == UNION { [1..k -> S] : k \in 0..n }

\* Where a utf-8 reader of the file raises UnicodeDecodeError: never (-1),
\* or after it delivered k data rows.  The reader decodes the file a block at
\* a time, so the rows of the blocks before the undecodable byte are
\* delivered first; k = 0 is also the block of the header row.
DecodeErrors(rows) == {-1, 0} \cup { k \in 1..(Len(rows) - 1) : TRUE }

\* A row left in the destination table by an earlier run.
OldRow == [run |-> "earlier", idx |-> 0, fields |-> <<Text("R0")>>]

\* A column an earlier schema of the destination table had.
ExtraColumn == <<"n", "o", "t", "e">>

\* The destination table before the run: absent, or present with the
\* columns of this run's header row or with one column more, holding the
\* rows of an earlier run.
NoTable == [exists |-> FALSE, columns |-> <<>>, rows |-> <<>>]

\* No creation statement was executed or printed yet.
NoStatement == [how |-> "none", columns |-> <<>>, indexes |-> {}]

\* A creation statement for lobby_staging: one TEXT column per header, and
\* the attributes it creates an index on.
Statement(how, hdrs, indexed) ==
    [how |-> how, columns |-> hdrs, indexes |-> indexed]

TablesBefore(raw) ==
    { NoTable,
      [exists |-> TRUE, columns |-> SnakeHeaders(raw), rows |-> <<OldRow>>],
      [exists |-> TRUE, columns |-> Append(SnakeHeaders(raw), ExtraColumn),
       rows |-> <<OldRow>>] }


(***************************************************************************)
(* State.                                                                  *)
(***************************************************************************)
VARIABLES
    now,                   \* datetime.now(): the wall clock
    create_sql,            \* the creation statement last executed or printed
    table_query,           \* answer to the existence query for lobby_staging
    extract_failure,       \* why extract_primary_csv failed: "no_csv",
                           \* "decode"; "none" while it has not
    variant,               \* which script runs: "plain", "enhanced", "rest";
                           \* "filter" when the row filter alone is iterated
    pc,                    \* position of the run
    exit_code,             \* process exit status, -1 while running
    summary_printed,       \* main printed "ETL completed successfully"
    raw_headers,           \* header row of the table in the archive
    csv_rows,              \* data rows of the table in the archive
    decode_error_at,       \* data rows a utf-8 reader of the file delivers
                           \* before UnicodeDecodeError, -1 for a valid file
    table_before,          \* lobby_staging as the run found it
    CUTOFF_DATE,           \* module constant, computed at import
    headers,               \* snake_headers returned by extract_primary_csv
    temp_files,            \* temporary files on disk
    paths,                 \* of them, those main holds in zip_path, csv_path
    table,                 \* lobby_staging as committed at the destination
    txn,                   \* lobby_staging as seen inside the open transaction
    port_idx,              \* plain: position in [6543, 5432]
    connection_successful, \* plain: stream_to_supabase's flag
    attempts,              \* connection attempts made, with their outcome
    connection_method,     \* ConnectionManager.connection_method
    postgres_conn,         \* the open direct connection, "none" for None
    rest_client,           \* an HTTP client was instantiated
    probes,                \* probes made by the test_* methods, with outcome
    date_col_idx,          \* filter_recent_rows: date_col_idx, 0 for None
    encoding,              \* encoding the filter's reader decodes with
    reader_pos,            \* data rows the filter's reader has consumed
    total_count,           \* filter_recent_rows: total_count
    filtered_count,        \* filter_recent_rows: filtered_count
    emitted,               \* rows yielded by the filter in the current pass
    buffer,                \* rows written to the StringIO buffer
    batch,                 \* HTTP insert: records of the current batch
    row_count,             \* loader's row_count
    submissions,           \* payloads handed to cur.copy / insert_batch
    ddl_count,             \* committed drop-and-recreate statements of the run
    passes,                \* times the run started iterating the row filter
    load_committed         \* the conn.commit() that ends the bulk copy returned

vars == << now, create_sql, table_query, extract_failure, variant, pc,
           exit_code, summary_printed, raw_headers, csv_rows,
           decode_error_at, encoding,
           CUTOFF_DATE, headers, temp_files, paths, table, txn, port_idx,
           connection_successful, attempts, connection_method, postgres_conn,
           rest_client, probes, date_col_idx, reader_pos, total_count,
           filtered_count,
           emitted, buffer, batch, row_count, submissions, ddl_count, passes,
           table_before, load_committed >>

\* Variables of the destination and of the connection selection.
connVars == << port_idx, connection_successful, attempts, connection_method,
               postgres_conn, rest_client, probes >>

\* Variables of the filter and of the loader's loop.
loadVars == << date_col_idx, encoding, reader_pos, total_count, filtered_count, emitted,
               buffer, batch, row_count, submissions, passes,
               load_committed >>

\* The wall clock and what the run said about the extraction and about the
\* table's creation.
runVars == << now, create_sql, table_query, extract_failure >>

\* Variables of the inputs, fixed for a run.
inputVars == << variant, raw_headers, csv_rows, decode_error_at, CUTOFF_DATE,
               table_before >>

Ports == <<"6543", "5432">>

InitCommon ==
    /\ pc = "download"
    /\ create_sql = NoStatement
    /\ table_query = "none"
    /\ extract_failure = "none"
    /\ exit_code = -1
    /\ summary_printed = FALSE
    /\ headers = <<>>
    /\ temp_files = {}
    /\ paths = {}
    /\ txn = NoTable
    /\ port_idx = 1
    /\ connection_successful = FALSE
    /\ attempts = <<>>
    /\ connection_method = "none"
    /\ postgres_conn = "none"
    /\ rest_client = FALSE
    /\ probes = <<>>
    /\ date_col_idx = 0
    /\ encoding = "none"
    /\ reader_pos = 0
    /\ total_count = 0
    /\ filtered_count = 0
    /\ emitted = <<>>
    /\ buffer = <<>>
    /\ batch = <<>>
    /\ row_count = 0
    /\ submissions = <<>>
    /\ ddl_count = 0
    /\ passes = 0
    /\ load_committed = FALSE

\* A run of one of the three pipelines.
Init ==
    /\ variant \in {"plain", "enhanced", "rest"}
    /\ raw_headers \in RawHeaderRows
    /\ csv_rows \in SeqsUpTo(RunRows, MaxRunRows)
    /\ decode_error_at \in DecodeErrors(csv_rows)
    /\ now = [day |-> Ordinal(2026, 3, 1), tod |-> 1]
    /\ CUTOFF_DATE = CutoffOf(now)
    /\ table \in TablesBefore(raw_headers)
    /\ table_before = table
    /\ InitCommon

(***************************************************************************)
(* Process exit: the finally clause of main runs cleanup_temp_files on the *)
(* paths main holds.                                                       *)
(***************************************************************************)
\* cleanup_temp_files(zip_path, csv_path): unlinks the paths in order; a path
\* still None raises TypeError, which ends the loop.  zip_path is assigned
\* before csv_path, so exactly the files main holds are removed.
cleanup_temp_files(files, held) == files \ held

\* sys.exit(code) or the end of main, through the finally clause.
Exit(code) ==
    /\ pc' = "done"
    /\ exit_code' = code
    /\ temp_files' = cleanup_temp_files(temp_files, paths)

\* A fatal path: exit status 1, no success summary.
Fatal == Exit(1) /\ UNCHANGED summary_printed

(***************************************************************************)
(* Fetcher and Extractor.                                                  *)
(***************************************************************************)
\* download_lobbying_data: the temporary file is created, then urlretrieve
\* succeeds or raises URLError (sys.exit(1) before main holds the path).
download_lobbying_data ==
    /\ pc = "download"
    /\ variant \in {"plain", "enhanced", "rest"}
    /\ \E ok \in BOOLEAN :
        IF ok
        THEN /\ temp_files' = temp_files \cup {"zip"}
             /\ paths' = paths \cup {"zip"}
             /\ pc' = "extract"
             /\ UNCHANGED << exit_code, summary_printed >>
        ELSE /\ pc' = "done"
             /\ exit_code' = 1
             /\ temp_files' =
                    cleanup_temp_files(temp_files \cup {"zip"}, paths)
             /\ UNCHANGED << paths, summary_printed >>
    /\ UNCHANGED << inputVars, runVars, headers, table, txn, connVars, loadVars,
                    ddl_count >>

\* extract_primary_csv without the sys.exit(1) of the empty archive: the
\* message is printed and the run goes on to the destination with no
\* headers.
extract_primary_csv_goes_on ==
    /\ pc = "extract"
    /\ \E has_csv \in BOOLEAN, utf8_ok \in BOOLEAN :
        /\ ~utf8_ok => decode_error_at = 0
        /\ IF ~has_csv
           THEN /\ extract_failure' = "no_csv"
                /\ pc' = "connect"
                /\ UNCHANGED << headers, paths, temp_files, exit_code,
                                summary_printed >>
           ELSE IF variant = "plain" /\ ~utf8_ok
           THEN /\ extract_failure' = "decode"
                /\ pc' = "done"
                /\ exit_code' = 1
                /\ temp_files' =
                       cleanup_temp_files(temp_files \cup {"csv"}, paths)
                /\ UNCHANGED << headers, paths, summary_printed >>
           ELSE /\ headers' = SnakeHeaders(raw_headers)
                /\ temp_files' = temp_files \cup {"csv"}
                /\ paths' = paths \cup {"csv"}
                /\ pc' = "connect"
                /\ UNCHANGED << extract_failure, exit_code, summary_printed >>
    /\ UNCHANGED << inputVars, now, create_sql, table_query, table, txn,
                    connVars, loadVars, ddl_count >>

\* extract_primary_csv: no .csv member is fatal; the member is copied to a
\* temporary file; the header row is decoded (utf-8 alone in the plain
\* script, where a decoding error reaches main's except clause; the other
\* scripts fall back to latin1, which decodes any bytes) and normalised.
extract_primary_csv ==
    /\ pc = "extract"
    /\ \E has_csv \in BOOLEAN, utf8_ok \in BOOLEAN :
        /\ ~utf8_ok => decode_error_at = 0
        /\ IF ~has_csv
           THEN /\ extract_failure' = "no_csv"
                /\ Fatal
                /\ UNCHANGED << headers, paths >>
           ELSE IF variant = "plain" /\ ~utf8_ok
           THEN /\ extract_failure' = "decode"
                /\ pc' = "done"
                /\ exit_code' = 1
                /\ temp_files' =
                       cleanup_temp_files(temp_files \cup {"csv"}, paths)
                /\ UNCHANGED << headers, paths, summary_printed >>
           ELSE /\ headers' = SnakeHeaders(raw_headers)
                /\ temp_files' = temp_files \cup {"csv"}
                /\ paths' = paths \cup {"csv"}
                /\ pc' = "connect"
                /\ UNCHANGED << extract_failure, exit_code, summary_printed >>
    /\ UNCHANGED << inputVars, now, create_sql, table_query, table, txn,
                    connVars, loadVars, ddl_count >>

(***************************************************************************)
(* Row Filter (filter_recent_rows).                                        *)
(***************************************************************************)
\* The body of the loop for one data row: whether the row is yielded.
\* idx is date_col_idx counted from 1, 0 for None (yield from reader).
Yields(row, idx, cutoff) ==
    IF idx = 0 THEN TRUE
    ELSE IF Len(row) > idx - 1
         THEN IF ParseDate(row[idx]) = <<>>
              THEN TRUE
              ELSE OnOrAfter(ParseDate(row[idx])[1], cutoff)
         ELSE FALSE

\* The loop body with the cutoff computed again for each row:
\* row_date >= datetime.now() - timedelta(days=730).
ReadRow_recomputes_cutoff ==
    LET row == csv_rows[reader_pos + 1]
        idx == date_col_idx
        y   == Yields(row, idx, CutoffOf(now))
    IN  /\ reader_pos' = reader_pos + 1
        /\ date_col_idx' = date_col_idx
        /\ encoding' = encoding
        /\ total_count' = IF idx = 0 THEN total_count ELSE total_count + 1
        /\ filtered_count' =
              IF idx # 0 /\ y THEN filtered_count + 1 ELSE filtered_count
        /\ emitted' = IF y THEN Append(emitted, reader_pos + 1) ELSE emitted

\* The reader consumes the next data row; the counters of the filter move,
\* and the row joins `emitted` when it is yielded.
ReadRow ==
    LET row == csv_rows[reader_pos + 1]
        idx == date_col_idx
        y   == Yields(row, idx, CUTOFF_DATE)
    IN  /\ reader_pos' = reader_pos + 1
        /\ date_col_idx' = date_col_idx
        /\ encoding' = encoding
        /\ total_count' = IF idx = 0 THEN total_count ELSE total_count + 1
        /\ filtered_count' =
              IF idx # 0 /\ y THEN filtered_count + 1 ELSE filtered_count
        /\ emitted' = IF y THEN Append(emitted, reader_pos + 1) ELSE emitted

\* The loader starts iterating filter_recent_rows(csv_path, headers): the
\* date column is looked up once, before the first row is read.
StartFilter ==
    /\ date_col_idx' = DateColIdx(headers)
    /\ encoding' = "utf-8"
    /\ reader_pos' = 0
    /\ total_count' = 0
    /\ filtered_count' = 0
    /\ emitted' = <<>>
    /\ passes' = passes + 1

\* The reader's next read raises UnicodeDecodeError.
DecodeError == encoding = "utf-8" /\ reader_pos = decode_error_at

\* `except UnicodeDecodeError: continue` of the filters with the encoding
\* list: the file is opened again under latin1, which decodes any bytes, and
\* read from its first data row with the counters at 0; the rows yielded so
\* far stay yielded.
ReopenLatin1 ==
    /\ encoding' = "latin1"
    /\ reader_pos' = 0
    /\ total_count' = 0
    /\ filtered_count' = 0
    /\ UNCHANGED << date_col_idx, emitted >>

\* UnicodeDecodeError leaves filter_recent_rows of the plain script: the
\* generator is finished, its state is as the last read left it.
FilterRaises ==
    UNCHANGED << date_col_idx, encoding, reader_pos, total_count,
                 filtered_count, emitted >>

\* The row the reader is about to consume is yielded to the loader.
NextYields ==
    Yields(csv_rows[reader_pos + 1], date_col_idx, CUTOFF_DATE)

\* A row of this run as the destination holds it.
Loaded(i) == [run |-> "this", idx |-> i, fields |-> csv_rows[i]]


(***************************************************************************)
(* Loader, plain direct-connection script (lobbying.py).                   *)
(***************************************************************************)
\* Rows between two flushes of the copy buffer.  The scripts flush every
\* 1000 rows (lobbying.py:231) and every 10000 rows
\* (lobbying_enhanced.py:350); the model scales both to the size of its
\* files.
PlainFlushRows == 2

EnhancedFlushRows == 3

\* stream_to_supabase, up to the loop over the ports: both environment
\* variables must be set.
stream_to_supabase_env ==
    /\ pc = "connect"
    /\ variant = "plain"
    /\ \E env_ok \in BOOLEAN :
        IF env_ok
        THEN /\ pc' = "port"
             /\ UNCHANGED << exit_code, summary_printed, temp_files >>
        ELSE Fatal
    /\ UNCHANGED << inputVars, runVars, headers, paths, table, txn, connVars,
                    loadVars, ddl_count >>

\* `except Exception as port_error: ... continue`: the with block has rolled
\* the transaction back and closed the connection; the loop goes on to the
\* next port, or ends.
PortContinue ==
    /\ txn' = NoTable
    /\ postgres_conn' = "none"
    /\ IF port_idx < Len(Ports)
       THEN port_idx' = port_idx + 1 /\ pc' = "port"
       ELSE port_idx' = port_idx /\ pc' = "after_loop"

\* One turn of `for port in [6543, 5432]` up to the connection:
\* psycopg.connect succeeds (connection_successful = True) or raises.
plain_connect ==
    /\ pc = "port"
    /\ \E ok \in BOOLEAN :
        /\ attempts' = Append(attempts, [port |-> Ports[port_idx], ok |-> ok])
        /\ IF ok
           THEN /\ connection_successful' = TRUE
                /\ postgres_conn' = Ports[port_idx]
                /\ txn' = table
                /\ pc' = "create"
                /\ UNCHANGED port_idx
           ELSE /\ PortContinue
                /\ UNCHANGED connection_successful
    /\ UNCHANGED << inputVars, runVars, exit_code, summary_printed, headers,
                    temp_files, paths, table, connection_method, rest_client,
                    probes, loadVars, ddl_count >>

\* The table as DROP TABLE IF EXISTS; CREATE TABLE (header TEXT, ...) leaves
\* it.
Recreated(hdrs) == [exists |-> TRUE, columns |-> hdrs, rows |-> <<>>]

\* create_staging_table(conn, headers): the statement is executed and
\* committed; either step may raise.
create_staging_table ==
    /\ pc = "create"
    /\ variant = "plain"
    /\ \E outcome \in {"ok", "execute_fails", "commit_fails"} :
        IF outcome = "ok"
        THEN /\ table' = Recreated(headers)
             /\ txn' = Recreated(headers)
             /\ ddl_count' = ddl_count + 1
             /\ pc' = "stream"
             /\ UNCHANGED << port_idx, postgres_conn >>
        ELSE /\ PortContinue
             /\ UNCHANGED << table, ddl_count >>
    /\ create_sql' = Statement("executed", headers, {})
    /\ UNCHANGED << inputVars, now, extract_failure,
                    table_query, exit_code, summary_printed, headers,
                    temp_files, paths, connection_successful, attempts,
                    connection_method, rest_client, probes, loadVars >>

\* The cursor, the buffer and row_count = 0; the for loop starts the filter.
plain_stream_begin ==
    /\ pc = "stream"
    /\ variant = "plain"
    /\ StartFilter
    /\ buffer' = <<>>
    /\ row_count' = 0
    /\ pc' = "load"
    /\ UNCHANGED << inputVars, runVars, exit_code, summary_printed, headers,
                    temp_files, paths, table, txn, connVars, batch,
                    submissions, ddl_count,
                    load_committed >>

\* cur.copy(copy_sql, buffer) succeeded: the rows join the transaction.
Copied(t, rows) == [t EXCEPT !.rows = t.rows \o rows]

\* One turn of `for row in filter_recent_rows(...)`: the filter reads a row;
\* a yielded row is written to the buffer and counted, and every
\* PlainFlushRows rows the buffer is submitted and truncated.  A failing
\* cur.copy raises into the except clause of the port loop.
plain_copy_row ==
    /\ pc = "load"
    /\ variant = "plain"
    /\ IF DecodeError
       THEN /\ FilterRaises
            /\ PortContinue
            /\ UNCHANGED << buffer, row_count, submissions >>
       ELSE /\ reader_pos < Len(csv_rows)
            /\ ReadRow
            /\ IF ~NextYields
               THEN UNCHANGED << buffer, row_count, submissions, txn, pc,
                                 port_idx, postgres_conn >>
               ELSE LET filled == Append(buffer, Loaded(reader_pos + 1)) IN
                    /\ row_count' = row_count + 1
                    /\ IF (row_count + 1) % PlainFlushRows # 0
                       THEN /\ buffer' = filled
                            /\ UNCHANGED << submissions, txn, pc, port_idx,
                                            postgres_conn >>
                       ELSE \E ok \in BOOLEAN :
                            /\ submissions' = Append(submissions, filled)
                            /\ IF ok
                               THEN /\ txn' = Copied(txn, filled)
                                    /\ buffer' = <<>>
                                    /\ UNCHANGED << pc, port_idx,
                                                    postgres_conn >>
                               ELSE /\ buffer' = filled
                                    /\ PortContinue
    /\ UNCHANGED << inputVars, runVars, exit_code, summary_printed, headers,
                    temp_files, paths, table, connection_successful,
                    attempts, connection_method, rest_client, probes, batch,
                    passes, ddl_count,
                    load_committed >>

\* The end of the loop without the final flush: conn.commit() follows the
\* last periodic flush, and the rows left in the buffer are never submitted.
plain_copy_end_no_final_flush ==
    /\ pc = "load"
    /\ variant = "plain"
    /\ reader_pos = Len(csv_rows)
    /\ ~DecodeError
    /\ \E outcome \in {"ok", "commit_fails"} :
        /\ load_committed' = (outcome = "ok")
        /\ IF outcome = "ok"
           THEN /\ table' = txn
                /\ pc' = "after_loop"
                /\ UNCHANGED << txn, port_idx, postgres_conn >>
           ELSE /\ PortContinue
                /\ UNCHANGED table
    /\ UNCHANGED << inputVars, runVars, exit_code, summary_printed, headers,
                    temp_files, paths, connection_successful, attempts,
                    connection_method, rest_client, probes, date_col_idx,
                    encoding, reader_pos, total_count, filtered_count,
                    emitted, buffer, batch, row_count, submissions, passes,
                    ddl_count >>

\* The end of the loop with conn.commit() in a finally clause: what the
\* periodic flushes copied is committed also when the final flush or the
\* commit of the success path raises.
plain_copy_end_commits_partial ==
    /\ pc = "load"
    /\ variant = "plain"
    /\ reader_pos = Len(csv_rows)
    /\ ~DecodeError
    /\ \E outcome \in {"ok", "copy_fails", "commit_fails"} :
        /\ outcome = "copy_fails" => buffer # <<>>
        /\ submissions' = IF buffer # <<>> THEN Append(submissions, buffer)
                          ELSE submissions
        /\ load_committed' = (outcome = "ok")
        /\ IF outcome = "ok"
           THEN /\ table' = Copied(txn, buffer)
                /\ txn' = Copied(txn, buffer)
                /\ pc' = "after_loop"
                /\ UNCHANGED << port_idx, postgres_conn >>
           ELSE /\ PortContinue
                /\ table' = txn
    /\ UNCHANGED << inputVars, runVars, exit_code, summary_printed, headers,
                    temp_files, paths, connection_successful, attempts,
                    connection_method, rest_client, probes, date_col_idx,
                    encoding, reader_pos, total_count, filtered_count, emitted,
                    buffer, batch, row_count, passes, ddl_count >>

\* The filter is exhausted: the final flush of a non-empty buffer, then
\* conn.commit(), the success line and `break`.  A failure of the flush or
\* of the commit raises into the except clause of the port loop.
plain_copy_end ==
    /\ pc = "load"
    /\ variant = "plain"
    /\ reader_pos = Len(csv_rows)
    /\ ~DecodeError
    /\ \E outcome \in {"ok", "copy_fails", "commit_fails"} :
        /\ outcome = "copy_fails" => buffer # <<>>
        /\ submissions' = IF buffer # <<>> THEN Append(submissions, buffer)
                          ELSE submissions
        /\ load_committed' = (outcome = "ok")
        /\ IF outcome = "ok"
           THEN /\ table' = Copied(txn, buffer)
                /\ txn' = Copied(txn, buffer)
                /\ pc' = "after_loop"
                /\ UNCHANGED << port_idx, postgres_conn >>
           ELSE /\ PortContinue
                /\ UNCHANGED table
    /\ UNCHANGED << inputVars, runVars, exit_code, summary_printed, headers,
                    temp_files, paths, connection_successful, attempts,
                    connection_method, rest_client, probes, date_col_idx,
                    encoding, reader_pos, total_count, filtered_count, emitted,
                    buffer, batch, row_count, passes, ddl_count >>

\* After the loop: without any connection stream_to_supabase raises, which
\* its own except clause turns into sys.exit(1); otherwise it returns and
\* main prints the success summary and ends with status 0.
plain_after_loop ==
    /\ pc = "after_loop"
    /\ IF ~connection_successful
       THEN Fatal
       ELSE /\ summary_printed' = TRUE
            /\ Exit(0)
    /\ UNCHANGED << inputVars, runVars, headers, paths, table, txn, connVars,
                    loadVars, ddl_count >>

PlainNext ==
    \/ stream_to_supabase_env
    \/ plain_connect
    \/ create_staging_table
    \/ plain_stream_begin
    \/ plain_copy_row
    \/ plain_copy_end
    \/ plain_after_loop


(***************************************************************************)
(* Connection Selector (ConnectionManager.establish_connection).           *)
(***************************************************************************)
\* ConnectionManager.__init__: both environment variables must be set.
ConnectionManager_init ==
    /\ pc = "connect"
    /\ variant = "enhanced"
    /\ \E env_ok \in BOOLEAN :
        IF env_ok
        THEN /\ pc' = "probe_local"
             /\ UNCHANGED << exit_code, summary_printed, temp_files >>
        ELSE Fatal
    /\ UNCHANGED << inputVars, runVars, headers, paths, table, txn, connVars,
                    loadVars, ddl_count >>

\* establish_connection without the early return after the local probe: the
\* remote probes follow a successful local one.
test_local_postgres_probes_on ==
    /\ pc = "probe_local"
    /\ \E ok \in BOOLEAN :
        /\ probes' = Append(probes, [cand |-> "local", ok |-> ok])
        /\ connection_method' = IF ok THEN "local_postgres"
                                ELSE connection_method
        /\ pc' = "probe_remote"
        /\ port_idx' = 1
    /\ UNCHANGED << inputVars, runVars, exit_code, summary_printed, headers,
                    temp_files, paths, table, txn, connection_successful,
                    attempts, postgres_conn, rest_client, loadVars,
                    ddl_count >>

\* `if self.test_local_postgres():` a connection to the local server is
\* opened and closed; on success the method is recorded.
test_local_postgres ==
    /\ pc = "probe_local"
    /\ \E ok \in BOOLEAN :
        /\ probes' = Append(probes, [cand |-> "local", ok |-> ok])
        /\ IF ok
           THEN /\ connection_method' = "local_postgres"
                /\ pc' = "local_connect"
                /\ UNCHANGED port_idx
           ELSE /\ pc' = "probe_remote"
                /\ port_idx' = 1
                /\ UNCHANGED connection_method
    /\ UNCHANGED << inputVars, runVars, exit_code, summary_printed, headers,
                    temp_files, paths, table, txn, connection_successful,
                    attempts, postgres_conn, rest_client, loadVars,
                    ddl_count >>

\* self.postgres_conn = psycopg.connect(local): an exception here reaches
\* main's except clause.
local_connect ==
    /\ pc = "local_connect"
    /\ \E ok \in BOOLEAN :
        /\ attempts' = Append(attempts, [port |-> "local", ok |-> ok])
        /\ IF ok
           THEN /\ postgres_conn' = "local"
                /\ txn' = table
                /\ pc' = "create"
                /\ UNCHANGED << exit_code, summary_printed, temp_files >>
           ELSE /\ Fatal
                /\ UNCHANGED << postgres_conn, txn >>
    /\ UNCHANGED << inputVars, runVars, headers, paths, table, port_idx,
                    connection_successful, connection_method, rest_client,
                    probes, loadVars, ddl_count >>

\* One turn of the loop of test_remote_postgres over [6543, 5432]: the first
\* port that answers makes the test true, and the method is recorded; when
\* both fail the selector goes on to the HTTP API.
test_remote_postgres ==
    /\ pc = "probe_remote"
    /\ \E ok \in BOOLEAN :
        /\ probes' = Append(probes, [cand |-> Ports[port_idx], ok |-> ok])
        /\ IF ok
           THEN /\ connection_method' = "remote_postgres"
                /\ pc' = "remote_connect"
                /\ UNCHANGED port_idx
           ELSE /\ UNCHANGED connection_method
                /\ IF port_idx < Len(Ports)
                   THEN port_idx' = port_idx + 1 /\ pc' = "probe_remote"
                   ELSE port_idx' = port_idx /\ pc' = "probe_rest"
    /\ UNCHANGED << inputVars, runVars, exit_code, summary_printed, headers,
                    temp_files, paths, table, txn, connection_successful,
                    attempts, postgres_conn, rest_client, loadVars,
                    ddl_count >>

\* The loop that opens the remote connection: port 6543, then 5432; a bare
\* `except: continue` swallows each failure, and the method is returned
\* whether or not a connection was opened.
remote_connect ==
    /\ pc = "remote_connect"
    /\ \E ok1 \in BOOLEAN, ok2 \in BOOLEAN :
        /\ attempts' =
              IF ok1 THEN Append(attempts, [port |-> Ports[1], ok |-> TRUE])
              ELSE attempts \o << [port |-> Ports[1], ok |-> FALSE],
                                  [port |-> Ports[2], ok |-> ok2] >>
        /\ postgres_conn' =
              IF ok1 THEN Ports[1] ELSE IF ok2 THEN Ports[2] ELSE "none"
        /\ txn' = IF ok1 \/ ok2 THEN table ELSE txn
    /\ pc' = "create"
    /\ UNCHANGED << inputVars, runVars, exit_code, summary_printed, headers,
                    temp_files, paths, table, port_idx,
                    connection_successful, connection_method, rest_client,
                    probes, loadVars, ddl_count >>

\* establish_connection without the final sys.exit(1): the run goes on to
\* create_table when every probe failed.
test_rest_api_no_exit ==
    /\ pc = "probe_rest"
    /\ \E ok \in BOOLEAN :
        /\ probes' = Append(probes, [cand |-> "rest", ok |-> ok])
        /\ connection_method' = IF ok THEN "rest_api" ELSE connection_method
        /\ rest_client' = ok
        /\ pc' = "create"
    /\ UNCHANGED << inputVars, runVars, exit_code, summary_printed, headers,
                    temp_files, paths, table, txn, port_idx,
                    connection_successful, attempts, postgres_conn, loadVars,
                    ddl_count >>

\* `if self.test_rest_api():` a GET on the API root; status 200 commits to
\* the HTTP API and instantiates the client, anything else is the end:
\* "All connection methods failed", sys.exit(1).
test_rest_api ==
    /\ pc = "probe_rest"
    /\ \E ok \in BOOLEAN :
        /\ probes' = Append(probes, [cand |-> "rest", ok |-> ok])
        /\ IF ok
           THEN /\ connection_method' = "rest_api"
                /\ rest_client' = TRUE
                /\ pc' = "create"
                /\ UNCHANGED << exit_code, summary_printed, temp_files >>
           ELSE /\ Fatal
                /\ UNCHANGED << connection_method, rest_client >>
    /\ UNCHANGED << inputVars, runVars, headers, paths, table, txn, port_idx,
                    connection_successful, attempts, postgres_conn, loadVars,
                    ddl_count >>

(***************************************************************************)
(* Loader of the fallback script: create_table and insert_data.            *)
(***************************************************************************)
IsPostgresMethod(m) == m \in {"local_postgres", "remote_postgres"}

\* The attributes the creation statement indexes: reg_id_enr, country_pays.
IndexColumns ==
    { <<"r", "e", "g", "_", "i", "d", "_", "e", "n", "r">>,
      <<"c", "o", "u", "n", "t", "r", "y", "_", "p", "a", "y", "s">> }

ColumnSet(hdrs) == { hdrs[i] : i \in 1..Len(hdrs) }

\* A create_table that answers a failure of the direct connection by falling
\* back to the HTTP API.
create_table_postgres_falls_back ==
    /\ pc = "create"
    /\ variant = "enhanced"
    /\ IsPostgresMethod(connection_method)
    /\ \E outcome \in {"ok", "execute_fails", "commit_fails"} :
        /\ outcome = "ok" =>
              postgres_conn # "none" /\ IndexColumns \subseteq ColumnSet(headers)
        /\ IF outcome = "ok"
           THEN /\ table' = Recreated(headers)
                /\ txn' = Recreated(headers)
                /\ ddl_count' = ddl_count + 1
                /\ pc' = "stream"
           ELSE /\ pc' = "probe_rest"
                /\ UNCHANGED << table, txn, ddl_count >>
    /\ create_sql' = IF postgres_conn # "none"
                      THEN Statement("executed", headers, IndexColumns)
                      ELSE create_sql
    /\ UNCHANGED << inputVars, now, extract_failure,
                    table_query, exit_code, summary_printed, temp_files,
                    headers, paths, connVars, loadVars >>

\* _create_table_postgres: self.postgres_conn.cursor() on None raises; the
\* statement drops and creates the table and creates the two indexes, so the
\* server rejects it when an indexed attribute is not a column; execute and
\* commit may fail.  Every exception reaches main's except clause.
create_table_postgres ==
    /\ pc = "create"
    /\ variant = "enhanced"
    /\ IsPostgresMethod(connection_method)
    /\ \E outcome \in {"ok", "execute_fails", "commit_fails"} :
        /\ outcome = "ok" =>
              postgres_conn # "none" /\ IndexColumns \subseteq ColumnSet(headers)
        /\ IF outcome = "ok"
           THEN /\ table' = Recreated(headers)
                /\ txn' = Recreated(headers)
                /\ ddl_count' = ddl_count + 1
                /\ pc' = "stream"
                /\ UNCHANGED << exit_code, summary_printed, temp_files >>
           ELSE /\ Fatal
                /\ UNCHANGED << table, txn, ddl_count >>
    /\ create_sql' = IF postgres_conn # "none"
                      THEN Statement("executed", headers, IndexColumns)
                      ELSE create_sql
    /\ UNCHANGED << inputVars, now, extract_failure,
                    table_query, headers, paths, connVars, loadVars >>

\* client.table_exists("lobby_staging"): the GET returns status 200 only for
\* a table that exists; the request may also fail.
table_exists(found) == found => table.exists

\* _create_table_rest: the table is used as it is when the query finds it;
\* otherwise the creation statement is printed and the run ends.
create_table_rest ==
    /\ pc = "create"
    /\ variant = "enhanced"
    /\ ~IsPostgresMethod(connection_method)
    /\ \E found \in BOOLEAN :
        /\ table_exists(found)
        /\ table_query' = IF found THEN "found" ELSE "not_found"
        /\ IF found
           THEN /\ pc' = "stream"
                /\ UNCHANGED << create_sql, exit_code, summary_printed,
                                temp_files >>
           ELSE /\ create_sql' = Statement("printed", headers, IndexColumns)
                /\ Fatal
    /\ UNCHANGED << inputVars, now, extract_failure,
                    headers, paths, table, txn, connVars,
                    loadVars, ddl_count >>

\* _insert_data_postgres up to the loop.
insert_postgres_begin ==
    /\ pc = "stream"
    /\ variant = "enhanced"
    /\ IsPostgresMethod(connection_method)
    /\ StartFilter
    /\ buffer' = <<>>
    /\ row_count' = 0
    /\ pc' = "load"
    /\ UNCHANGED << inputVars, runVars, exit_code, summary_printed, headers,
                    temp_files, paths, table, txn, connVars, batch,
                    submissions, ddl_count,
                    load_committed >>

\* One turn of the loop of _insert_data_postgres: as in the plain script,
\* with a flush every EnhancedFlushRows rows; a failing cur.copy reaches
\* main's except clause.
insert_postgres_row ==
    /\ pc = "load"
    /\ variant = "enhanced"
    /\ IsPostgresMethod(connection_method)
    /\ IF DecodeError
       THEN /\ ReopenLatin1
            /\ UNCHANGED << buffer, row_count, submissions, txn, pc,
                            exit_code, summary_printed, temp_files >>
       ELSE /\ reader_pos < Len(csv_rows)
            /\ ReadRow
            /\ IF ~NextYields
               THEN UNCHANGED << buffer, row_count, submissions, txn, pc, exit_code,
                                 summary_printed, temp_files >>
               ELSE LET filled == Append(buffer, Loaded(reader_pos + 1)) IN
                    /\ row_count' = row_count + 1
                    /\ IF (row_count + 1) % EnhancedFlushRows # 0
                       THEN /\ buffer' = filled
                            /\ UNCHANGED << submissions, txn, pc, exit_code,
                                            summary_printed, temp_files >>
                       ELSE \E ok \in BOOLEAN :
                            /\ submissions' = Append(submissions, filled)
                            /\ IF ok
                               THEN /\ txn' = Copied(txn, filled)
                                    /\ buffer' = <<>>
                                    /\ UNCHANGED << pc, exit_code, summary_printed,
                                                    temp_files >>
                               ELSE /\ buffer' = filled
                                    /\ Fatal
                                    /\ UNCHANGED txn
    /\ UNCHANGED << inputVars, runVars, headers, paths, table, connVars, batch,
                    passes, ddl_count,
                    load_committed >>

\* The end of _insert_data_postgres: the final flush and the commit.
insert_postgres_end ==
    /\ pc = "load"
    /\ variant = "enhanced"
    /\ IsPostgresMethod(connection_method)
    /\ reader_pos = Len(csv_rows)
    /\ ~DecodeError
    /\ \E outcome \in {"ok", "copy_fails", "commit_fails"} :
        /\ outcome = "copy_fails" => buffer # <<>>
        /\ submissions' = IF buffer # <<>> THEN Append(submissions, buffer)
                          ELSE submissions
        /\ load_committed' = (outcome = "ok")
        /\ IF outcome = "ok"
           THEN /\ table' = Copied(txn, buffer)
                /\ txn' = Copied(txn, buffer)
                /\ pc' = "finish"
                /\ UNCHANGED << exit_code, summary_printed, temp_files >>
           ELSE /\ Fatal
                /\ UNCHANGED << table, txn >>
    /\ UNCHANGED << inputVars, runVars, headers, paths, connVars, date_col_idx,
                    encoding, reader_pos, total_count, filtered_count, emitted,
                    buffer, batch, row_count, passes, ddl_count >>

(***************************************************************************)
(* HTTP batched insert (_insert_data_rest, stream_to_supabase_rest).       *)
(***************************************************************************)
\* BATCH_SIZE = 1000 in the scripts, scaled to the size of the model's files.
BATCH_SIZE == 2

Min(a, b) == IF a < b THEN a ELSE b

\* {header: value for header, value in zip(headers, row)}: the pairs stop at
\* the shorter of the two, and a repeated header keeps its last value.
RowDict(hdrs, row) ==
    LET n == Min(Len(hdrs), Len(row)) IN
    [h \in { hdrs[i] : i \in 1..n } |->
        row[CHOOSE i \in 1..n :
                /\ hdrs[i] = h
                /\ \A j \in (i + 1)..n : hdrs[j] # h]]

\* A record of this run as the destination holds it.
LoadedDict(i) ==
    [run |-> "this", idx |-> i, fields |-> RowDict(headers, csv_rows[i])]

\* The server takes a POST of records only into a table that exists and has
\* a column for every key.
Accepts(t, records) ==
    /\ t.exists
    /\ \A k \in 1..Len(records) :
          DOMAIN records[k].fields \subseteq ColumnSet(t.columns)

\* The batch list and row_count = 0; the for loop starts the filter.
RestBegin ==
    /\ pc = "stream"
    /\ StartFilter
    /\ batch' = <<>>
    /\ row_count' = 0
    /\ pc' = "load"
    /\ UNCHANGED << inputVars, runVars, exit_code, summary_printed, headers,
                    temp_files, paths, table, txn, connVars, buffer,
                    submissions, ddl_count,
                    load_committed >>

\* One turn of the loop: a yielded row becomes a record of the batch; a full
\* batch is posted; a refused or failed post is sys.exit(1).  An accepted
\* batch is in the table at once.
RestRow ==
    /\ pc = "load"
    /\ IF DecodeError
       THEN /\ ReopenLatin1
            /\ UNCHANGED << batch, row_count, submissions, table, pc,
                            exit_code, summary_printed, temp_files >>
       ELSE /\ reader_pos < Len(csv_rows)
            /\ ReadRow
            /\ IF ~NextYields
               THEN UNCHANGED << batch, row_count, submissions, table, pc, exit_code,
                                 summary_printed, temp_files >>
               ELSE LET filled == Append(batch, LoadedDict(reader_pos + 1)) IN
                    /\ row_count' = row_count + 1
                    /\ IF Len(filled) < BATCH_SIZE
                       THEN /\ batch' = filled
                            /\ UNCHANGED << submissions, table, pc, exit_code,
                                            summary_printed, temp_files >>
                       ELSE \E ok \in BOOLEAN :
                            /\ ok => Accepts(table, filled)
                            /\ submissions' = Append(submissions, filled)
                            /\ IF ok
                               THEN /\ table' = Copied(table, filled)
                                    /\ batch' = <<>>
                                    /\ UNCHANGED << pc, exit_code, summary_printed,
                                                    temp_files >>
                               ELSE /\ batch' = filled
                                    /\ Fatal
                                    /\ UNCHANGED table
    /\ UNCHANGED << inputVars, runVars, headers, paths, txn, connVars, buffer,
                    passes, ddl_count,
                    load_committed >>

\* The end of the loop without `if batch:`: the records left in the batch
\* are never posted.
RestEnd_drops_remainder ==
    /\ pc = "load"
    /\ reader_pos = Len(csv_rows)
    /\ ~DecodeError
    /\ pc' = "finish"
    /\ UNCHANGED << inputVars, runVars, headers, paths, txn, connVars, loadVars,
                    submissions, table, exit_code, summary_printed,
                    temp_files, ddl_count >>

\* The end of the loop with the result of the last insert_batch ignored: a
\* refused request is followed by the success line.
RestEnd_ignores_failure ==
    /\ pc = "load"
    /\ reader_pos = Len(csv_rows)
    /\ ~DecodeError
    /\ IF batch = <<>>
       THEN UNCHANGED << submissions, table >>
       ELSE \E ok \in BOOLEAN :
            /\ ok => Accepts(table, batch)
            /\ submissions' = Append(submissions, batch)
            /\ table' = IF ok THEN Copied(table, batch) ELSE table
    /\ pc' = "finish"
    /\ UNCHANGED << inputVars, runVars, headers, paths, txn, connVars, date_col_idx,
                    encoding, reader_pos, total_count, filtered_count,
                    emitted, buffer, batch, row_count, passes, ddl_count,
                    load_committed, exit_code, summary_printed, temp_files >>

\* After the loop: a non-empty last batch is posted.
RestEnd ==
    /\ pc = "load"
    /\ reader_pos = Len(csv_rows)
    /\ ~DecodeError
    /\ IF batch = <<>>
       THEN /\ pc' = "finish"
            /\ UNCHANGED << submissions, table, exit_code, summary_printed,
                            temp_files >>
       ELSE \E ok \in BOOLEAN :
            /\ ok => Accepts(table, batch)
            /\ submissions' = Append(submissions, batch)
            /\ IF ok
               THEN /\ table' = Copied(table, batch)
                    /\ pc' = "finish"
                    /\ UNCHANGED << exit_code, summary_printed, temp_files >>
               ELSE /\ Fatal
                    /\ UNCHANGED table
    /\ UNCHANGED << inputVars, runVars, headers, paths, txn, connVars, date_col_idx,
                    encoding, reader_pos, total_count, filtered_count, emitted,
                    buffer, batch, row_count, passes, ddl_count,
                    load_committed >>

\* _insert_data_rest of the fallback script.
insert_rest_begin ==
    variant = "enhanced" /\ ~IsPostgresMethod(connection_method) /\ RestBegin

insert_rest_row ==
    variant = "enhanced" /\ ~IsPostgresMethod(connection_method) /\ RestRow

insert_rest_end ==
    variant = "enhanced" /\ ~IsPostgresMethod(connection_method) /\ RestEnd

\* main after insert_data returned: the success summary, then status 0.
main_summary ==
    /\ pc = "finish"
    /\ summary_printed' = TRUE
    /\ Exit(0)
    /\ UNCHANGED << inputVars, runVars, headers, paths, table, txn, connVars,
                    loadVars, ddl_count >>

EnhancedNext ==
    \/ ConnectionManager_init
    \/ test_local_postgres
    \/ local_connect
    \/ test_remote_postgres
    \/ remote_connect
    \/ test_rest_api
    \/ create_table_postgres
    \/ create_table_rest
    \/ insert_postgres_begin
    \/ insert_postgres_row
    \/ insert_postgres_end
    \/ insert_rest_begin
    \/ insert_rest_row
    \/ insert_rest_end

(***************************************************************************)
(* The HTTP data API script (lobbying_rest.py).                            *)
(***************************************************************************)
\* stream_to_supabase_rest up to the table setup: the environment variables
\* and client.test_connection().
rest_connect ==
    /\ pc = "connect"
    /\ variant = "rest"
    /\ \E env_ok \in BOOLEAN, ok \in BOOLEAN :
        IF env_ok /\ ok
        THEN /\ rest_client' = TRUE
             /\ pc' = "create"
             /\ UNCHANGED << exit_code, summary_printed, temp_files >>
        ELSE /\ Fatal
             /\ rest_client' = env_ok
    /\ UNCHANGED << inputVars, runVars, headers, paths, table, txn, port_idx,
                    connection_successful, attempts, connection_method,
                    postgres_conn, probes, loadVars, ddl_count >>

\* setup_staging_table without the closing sys.exit(1): the statement is
\* printed and the script goes on to the batched insert.
setup_staging_table_goes_on ==
    /\ pc = "create"
    /\ variant = "rest"
    /\ \E found \in BOOLEAN :
        /\ table_exists(found)
        /\ table_query' = IF found THEN "found" ELSE "not_found"
        /\ create_sql' = IF found THEN create_sql
                         ELSE Statement("printed", headers, {})
        /\ pc' = "stream"
    /\ UNCHANGED << inputVars, now, extract_failure,
                    exit_code, summary_printed, temp_files,
                    headers, paths, table, txn, connVars, loadVars,
                    ddl_count >>

\* setup_staging_table: as _create_table_rest, the statement without indexes.
setup_staging_table ==
    /\ pc = "create"
    /\ variant = "rest"
    /\ \E found \in BOOLEAN :
        /\ table_exists(found)
        /\ table_query' = IF found THEN "found" ELSE "not_found"
        /\ IF found
           THEN /\ pc' = "stream"
                /\ UNCHANGED << create_sql, exit_code, summary_printed,
                                temp_files >>
           ELSE /\ create_sql' = Statement("printed", headers, {})
                /\ Fatal
    /\ UNCHANGED << inputVars, now, extract_failure,
                    headers, paths, table, txn, connVars,
                    loadVars, ddl_count >>

\* The batched insert of stream_to_supabase_rest.
rest_stream_begin == variant = "rest" /\ RestBegin

rest_stream_row == variant = "rest" /\ RestRow

rest_stream_end == variant = "rest" /\ RestEnd

RestNext ==
    \/ rest_connect
    \/ setup_staging_table
    \/ rest_stream_begin
    \/ rest_stream_row
    \/ rest_stream_end

(***************************************************************************)
(* The pipeline specification.                                             *)
(***************************************************************************)
\* The operator interrupts the run between two steps: KeyboardInterrupt
\* reaches main's `except KeyboardInterrupt: sys.exit(1)` and the finally
\* clause.
KeyboardInterrupt ==
    /\ pc # "done"
    /\ Fatal
    /\ UNCHANGED << inputVars, runVars, headers, paths, table, txn, connVars,
                    loadVars, ddl_count >>

Next ==
    \/ KeyboardInterrupt
    \/ download_lobbying_data
    \/ extract_primary_csv
    \/ PlainNext
    \/ EnhancedNext
    \/ RestNext
    \/ main_summary

Spec == Init /\ [][Next]_vars


(***************************************************************************)
(* The record specification: the REST script runs over files whose rows    *)
(* have fewer fields than the header row, as many, or more.                *)
(***************************************************************************)
\* Data rows of the record specification: one field, two fields, three
\* fields; the header rows have two or three columns.
RecordRows ==
    { <<Text("R1")>>,
      <<Text("R1"), Text("CA")>>,
      <<Text("R1"), Text("CA"), DateText("-", 2024, 3, 2)>> }

InitRecords ==
    /\ variant = "rest"
    /\ raw_headers \in RawHeaderRows
    /\ csv_rows \in SeqsUpTo(RecordRows, MaxRows)
    /\ decode_error_at = -1
    /\ now = [day |-> Ordinal(2026, 3, 1), tod |-> 1]
    /\ CUTOFF_DATE = CutoffOf(now)
    /\ table \in TablesBefore(raw_headers)
    /\ table_before = table
    /\ InitCommon

NextRecords ==
    \/ download_lobbying_data
    \/ extract_primary_csv
    \/ RestNext
    \/ main_summary

SpecRecords == InitRecords /\ [][NextRecords]_vars


(***************************************************************************)
(* The row-filter specification: filter_recent_rows(csv_path, headers) is  *)
(* iterated to its end over every file of at most MaxRows rows.            *)
(***************************************************************************)
InitFilter ==
    /\ variant = "filter"
    /\ raw_headers \in RawHeaderRows
    /\ csv_rows \in SeqsUpTo(FilterRows, MaxRows)
    /\ decode_error_at \in DecodeErrors(csv_rows)
    /\ now \in Nows
    /\ CUTOFF_DATE = CutoffOf(now)
    /\ table = NoTable
    /\ table_before = NoTable
    /\ InitCommon

\* The file was extracted: the filter is handed the normalised headers.
filter_call ==
    /\ pc = "download"
    /\ variant = "filter"
    /\ headers' = SnakeHeaders(raw_headers)
    /\ pc' = "stream"
    /\ UNCHANGED << inputVars, runVars, exit_code, summary_printed, temp_files, paths,
                    table, txn, connVars, loadVars, ddl_count >>

\* The first next() on the generator.
filter_begin ==
    /\ pc = "stream"
    /\ variant = "filter"
    /\ StartFilter
    /\ pc' = "load"
    /\ UNCHANGED << inputVars, runVars, exit_code, summary_printed, headers,
                    temp_files, paths, table, txn, connVars, buffer, batch,
                    row_count, submissions, ddl_count, load_committed >>

\* One data row goes through the loop of the filter, or the read raises
\* UnicodeDecodeError to the consumer (the file is read as utf-8 alone).
filter_row ==
    /\ pc = "load"
    /\ variant = "filter"
    /\ IF DecodeError
       THEN /\ FilterRaises
            /\ pc' = "raised"
       ELSE /\ reader_pos < Len(csv_rows)
            /\ ReadRow
            /\ UNCHANGED pc
    /\ UNCHANGED << inputVars, runVars, exit_code, summary_printed, headers,
                    temp_files, paths, table, txn, connVars, buffer, batch,
                    row_count, submissions, passes, ddl_count,
                    load_committed >>

\* The reader is exhausted: the counts are printed and the generator ends.
filter_end ==
    /\ pc = "load"
    /\ variant = "filter"
    /\ reader_pos = Len(csv_rows)
    /\ ~DecodeError
    /\ pc' = "done"
    /\ UNCHANGED << inputVars, runVars, exit_code, summary_printed, headers,
                    temp_files, paths, table, txn, connVars, loadVars,
                    ddl_count >>

\* Time passes while the filter runs: the wall clock, at midnight when the
\* script was imported, moves on into the day.
tick ==
    /\ variant = "filter"
    /\ pc \in {"stream", "load"}
    /\ now.tod = 0
    /\ now' = [now EXCEPT !.tod = 1]
    /\ UNCHANGED << inputVars, create_sql, table_query, extract_failure, pc,
                    exit_code,
                    summary_printed, headers, temp_files, paths, table, txn,
                    connVars, loadVars, ddl_count >>

NextFilter ==
    \/ tick
    \/ filter_call
    \/ filter_begin
    \/ filter_row
    \/ filter_end

SpecFilter == InitFilter /\ [][NextFilter]_vars

(***************************************************************************)
(* The header specification: the header row of a file of two columns is    *)
(* normalised, for every pair of raw names of at most MaxNameLen           *)
(* characters.                                                             *)
(***************************************************************************)
\* Longest raw column name the header specification draws.
MaxNameLen == 2

\* Characters of the raw names: a lower case and an upper case letter, a
\* digit, the underscore, whitespace, punctuation, and the two characters
\* outside ASCII.
NameChars == {"a", "B", "1", "_", " ", "-", DottedI, DotAbove}

RawNames == SeqsUpTo(NameChars, MaxNameLen)

InitHeaders ==
    /\ variant = "headers"
    /\ raw_headers \in { <<x, y>> : x \in RawNames, y \in RawNames }
    /\ csv_rows = <<>>
    /\ decode_error_at = -1
    /\ now = [day |-> Ordinal(2026, 3, 1), tod |-> 1]
    /\ CUTOFF_DATE = CutoffOf(now)
    /\ table = NoTable
    /\ table_before = NoTable
    /\ InitCommon

\* snake_headers = [snake_case(h) for h in headers]
snake_headers ==
    /\ pc = "download"
    /\ variant = "headers"
    /\ headers' = SnakeHeaders(raw_headers)
    /\ pc' = "done"
    /\ UNCHANGED << inputVars, runVars, exit_code, summary_printed,
                    temp_files, paths, table, txn, connVars, loadVars,
                    ddl_count >>

NextHeaders == snake_headers

SpecHeaders == InitHeaders /\ [][NextHeaders]_vars


(***************************************************************************)
(* Claims.                                                                 *)
(***************************************************************************)
\* The candidates in the order of their priority.
PriorityOrder == <<"local", "6543", "5432", "rest">>

MethodOfCandidate(cand) ==
    CASE cand = "local" -> "local_postgres"
      [] cand = "rest" -> "rest_api"
      [] OTHER -> "remote_postgres"

\* A probe succeeded and nothing was probed after it.
LastProbeOk == probes # <<>> /\ probes[Len(probes)].ok

\* Positions of the fallback run after establish_connection returned.
AfterSelection == {"create", "stream", "load", "finish"}

RECURSIVE YieldedUpTo(_)
YieldedUpTo(k) ==
    IF k = 0 THEN <<>>
    ELSE IF Yields(csv_rows[k], DateColIdx(headers), CUTOFF_DATE)
         THEN Append(YieldedUpTo(k - 1), k)
         ELSE YieldedUpTo(k - 1)

\* The filtered rows of the run as the bulk copy delivers them.
AllFilteredRows ==
    [j \in 1..Len(YieldedUpTo(Len(csv_rows))) |->
        Loaded(YieldedUpTo(Len(csv_rows))[j])]

\* C2: the plain script ends with status 0 only if all filtered rows were
\* copied and committed; when a connection was established and the load was
\* not committed on any port it ends with status 1 and prints no success
\* summary.
C2_ExitZeroOnlyIfLoaded ==
    (variant = "plain" /\ pc = "done") =>
        /\ exit_code = 0 => (load_committed /\ table.rows = AllFilteredRows)
        /\ (connection_successful /\ ~load_committed)
              => (exit_code = 1 /\ ~summary_printed)

\* C3: in the plain script a port is tried only after every earlier
\* connection attempt failed, and a run drops and recreates the table at
\* most once and iterates the filter at most once.
C3_NoRetryAfterLoadFailure ==
    variant = "plain" =>
        /\ \A i \in 2..Len(attempts) : ~attempts[i - 1].ok
        /\ ddl_count <= 1
        /\ passes <= 1

\* C4: when the selector has committed to a direct-connection method and
\* returned, postgres_conn holds an open connection.
C4_CommittedMeansConnected ==
    (variant = "enhanced" /\ IsPostgresMethod(connection_method)
        /\ pc \in AfterSelection)
        => postgres_conn # "none"

\* C5: once a connection method is recorded it never changes, nothing is
\* probed any more, the connection and the client it stands for stay the
\* same, and the run leaves create_table and insert_data either to the
\* success summary or by ending with status 1.
C5_MethodChosenOnce ==
    [][ connection_method # "none" =>
            /\ connection_method' = connection_method
            /\ probes' = probes
            /\ rest_client' = rest_client
            /\ postgres_conn # "none" => postgres_conn' = postgres_conn
            /\ (pc \in AfterSelection /\ pc' \notin AfterSelection)
                  => (pc' = "done" /\ (pc # "finish" => exit_code' = 1))
      ]_vars

\* The local method was committed and connected, and create_table failed:
\* the run ended with status 1 before the filter was started.
C5_Witness ==
    /\ variant = "enhanced"
    /\ pc = "done"
    /\ exit_code = 1
    /\ connection_method = "local_postgres"
    /\ postgres_conn = "local"
    /\ passes = 0

AllProbesFailed ==
    /\ Len(probes) = Len(PriorityOrder)
    /\ \A i \in 1..Len(probes) : ~probes[i].ok

\* C6: when every probe failed the fallback run has ended with status 1,
\* without a success summary, and the destination table is as the run found
\* it: nothing was dropped, created or submitted.
C6_AllProbesFailedIsFatal ==
    (variant = "enhanced" /\ AllProbesFailed) =>
        /\ pc = "done"
        /\ exit_code = 1
        /\ ~summary_printed
        /\ table = table_before
        /\ ddl_count = 0
        /\ submissions = <<>>

\* All four probes failed over a destination that held a table.
C6_Witness ==
    /\ variant = "enhanced"
    /\ AllProbesFailed
    /\ pc = "done"
    /\ table_before.exists

\* A run that ended with status 0 having delivered its load (in the plain
\* script status 0 alone does not say so).
RunSucceeded ==
    /\ pc = "done"
    /\ exit_code = 0
    /\ variant = "plain" => load_committed

\* C7: after a successful run of any variant the table was dropped and
\* recreated by the run and holds rows of this run only.
C7_FullRefresh ==
    RunSucceeded =>
        /\ ddl_count >= 1
        /\ \A k \in 1..Len(table.rows) : table.rows[k].run = "this"

HoldsRowOfThisRun(t) == \E k \in 1..Len(t.rows) : t.rows[k].run = "this"

\* C8: whenever rows of the run are in the destination table, committed or
\* not, the table's column list is the run's list of normalised headers.
C8_ColumnsAreHeaders ==
    (HoldsRowOfThisRun(table) \/ HoldsRowOfThisRun(txn))
        => table.columns = headers

\* Row i of the file was yielded in the current pass.
WasEmitted(i) == \E j \in 1..Len(emitted) : emitted[j] = i

\* The date column value of row i exists and some format reads it.
DateParses(i) ==
    /\ date_col_idx # 0
    /\ Len(csv_rows[i]) >= date_col_idx
    /\ \E k \in 1..Len(DateFormats) :
          Strptime(csv_rows[i][date_col_idx], DateFormats[k]) # <<>>

\* The date of row i under the first format that reads it.
ParsedDate(i) ==
    LET v == csv_rows[i][date_col_idx]
        k == CHOOSE f \in 1..Len(DateFormats) :
                /\ Strptime(v, DateFormats[f]) # <<>>
                /\ \A g \in 1..(f - 1) : Strptime(v, DateFormats[g]) = <<>>
    IN  Strptime(v, DateFormats[k])[1]

\* C9: every row the filter has read whose date value parses under one of
\* the four formats was yielded if and only if the parsed date is at or
\* after the cutoff.
C9_ParsedDateDecides ==
    \A i \in 1..reader_pos :
        DateParses(i) =>
            (WasEmitted(i) <=>
                \/ ParsedDate(i).day > CUTOFF_DATE.day
                \/ /\ ParsedDate(i).day = CUTOFF_DATE.day
                   /\ ParsedDate(i).tod >= CUTOFF_DATE.tod)

\* The filter finished a file with a row dated on the cutoff day that it
\* yielded (the cutoff is midnight) and a row dated the day before that it
\* did not.
C9_Witness ==
    /\ variant = "filter"
    /\ pc = "done"
    /\ \E i \in 1..reader_pos :
          DateParses(i) /\ ParsedDate(i) = CUTOFF_DATE /\ WasEmitted(i)
    /\ \E i \in 1..reader_pos :
          /\ DateParses(i)
          /\ ParsedDate(i).day = CUTOFF_DATE.day - 1
          /\ ~WasEmitted(i)

\* C10: every row the filter has read is yielded unless its date value
\* parses and is earlier than the cutoff: rows whose date value is empty,
\* "null", absent or unreadable are yielded.
C10_BadDateIsIncluded ==
    \A i \in 1..reader_pos :
        (date_col_idx # 0 /\ ~DateParses(i)) => WasEmitted(i)

\* No normalised column name contains a date keyword.
NoDateColumn ==
    /\ headers # <<>>
    /\ \A i \in 1..Len(headers) :
          \A k \in 1..Len(DateTerms) : ~Contains(headers[i], DateTerms[k])

\* The file indices 1..n in file order.
FileOrder(n) == [i \in 1..n |-> i]

\* C11: when no normalised column name contains a date keyword, the rows the
\* filter has emitted are exactly the data rows it has read, in file order:
\* once it has read the whole file, every data row, once each.
C11_NoDateColumnEmitsAll ==
    (NoDateColumn /\ passes > 0) => emitted = FileOrder(reader_pos)

\* The destination is reached through the HTTP data API.
IsHttp ==
    \/ variant = "rest"
    \/ variant = "enhanced" /\ connection_method = "rest_api"

RECURSIVE Flatten(_)
\* The concatenation of a sequence of payloads, in order.
Flatten(payloads) ==
    IF payloads = <<>> THEN <<>>
    ELSE Head(payloads) \o Flatten(Tail(payloads))

\* The rows the filter has emitted, as the records built from them.
EmittedRecords == [j \in 1..Len(emitted) |-> LoadedDict(emitted[j])]

IsPrefix(a, b) == Len(a) <= Len(b) /\ a = SubSeq(b, 1, Len(a))

\* The loader's loop over the filter has ended without a failure.
LoadLoopEnded == pc = "finish" \/ (pc = "done" /\ exit_code = 0)

\* C12: over the HTTP data API no request is empty, every request but the
\* last carries exactly BATCH_SIZE records and the last at most BATCH_SIZE;
\* the requests, concatenated in submission order, are the records of the
\* rows the filter emitted, in order, each once: a prefix of them while the
\* load runs, all of them when it has ended.
C12_HttpBatches ==
    IsHttp =>
        /\ \A k \in 1..Len(submissions) :
              /\ Len(submissions[k]) >= 1
              /\ Len(submissions[k]) <= BATCH_SIZE
              /\ k < Len(submissions) => Len(submissions[k]) = BATCH_SIZE
        /\ IsPrefix(Flatten(submissions), EmittedRecords)
        /\ LoadLoopEnded => Flatten(submissions) = EmittedRecords

\* An HTTP load ended after a full request followed by a shorter last one.
C12_Witness ==
    /\ IsHttp
    /\ pc = "done"
    /\ exit_code = 0
    /\ Len(submissions) >= 2
    /\ Len(submissions[1]) = BATCH_SIZE
    /\ Len(submissions[Len(submissions)]) < BATCH_SIZE

\* The destination holds, after the rows it had, every request so far.
AllAccepted == table.rows = table_before.rows \o Flatten(submissions)

\* The destination holds every request but the last one.
LastRefused ==
    /\ submissions # <<>>
    /\ table.rows =
          table_before.rows
              \o Flatten(SubSeq(submissions, 1, Len(submissions) - 1))

\* C13: over the HTTP data API a request that is refused or fails is the
\* last request of the run: the process has ended with status 1, and the
\* requests accepted before it are in the destination.
C13_HttpFailureIsFatal ==
    IsHttp =>
        \/ AllAccepted
        \/ LastRefused /\ pc = "done" /\ exit_code = 1

\* The second request of an HTTP load was refused: the run ended with
\* status 1 and the records of the first request are in the destination.
C13_Witness ==
    /\ IsHttp
    /\ pc = "done"
    /\ exit_code = 1
    /\ Len(submissions) = 2
    /\ ~AllAccepted
    /\ table.rows = table_before.rows \o submissions[1]

\* The destination is loaded by the bulk copy over a direct connection.
IsCopy ==
    \/ variant = "plain"
    \/ variant = "enhanced" /\ IsPostgresMethod(connection_method)

\* Rows between two periodic submissions of the variant that runs.
FlushRows == IF variant = "plain" THEN PlainFlushRows ELSE EnhancedFlushRows

\* The rows the filter has emitted in this pass, as the copy delivers them.
EmittedRows == [j \in 1..Len(emitted) |-> Loaded(emitted[j])]

\* Submissions the pass makes for n emitted rows: one per FlushRows rows and
\* one for a remainder.
SubmissionsFor(n) ==
    (n \div FlushRows) + (IF n % FlushRows = 0 THEN 0 ELSE 1)

\* The last n payloads submitted.
LastSubmissions(n) ==
    SubSeq(submissions, Len(submissions) - n + 1, Len(submissions))

\* The bulk copy, with the buffer left aside: while the loop runs, the rows
\* emitted so far are the rows submitted in the transaction followed by the
\* rows waiting in the buffer, and a submission was made at every multiple
\* of FlushRows; once the commit has returned, the loop is over, the
\* submissions of the pass are one per FlushRows rows and one for the
\* remainder, they hold the emitted rows in order, each once, and the
\* committed table holds exactly these rows.
CopySubmissions ==
    /\ (IsCopy /\ pc = "load") =>
          /\ txn.rows \o buffer = EmittedRows
          /\ Len(buffer) = Len(emitted) % FlushRows
    /\ (IsCopy /\ load_committed) =>
          /\ pc \in {"after_loop", "finish", "done"}
          /\ Len(submissions) >= SubmissionsFor(Len(emitted))
          /\ Flatten(LastSubmissions(SubmissionsFor(Len(emitted))))
                = EmittedRows
          /\ \A k \in 1..Len(submissions) :
                /\ submissions[k] # <<>>
                /\ Len(submissions[k]) <= FlushRows
          /\ table.rows = EmittedRows
          /\ txn = table

\* C14 as stated: as CopySubmissions, and the buffer is empty after each
\* submission, the last one included.
C14_BufferEmptyAfterEachSubmission ==
    /\ CopySubmissions
    /\ (IsCopy /\ load_committed) => buffer = <<>>

\* C14, amended: in the bulk copy a submission is made after every
\* FlushRows emitted rows and once more for a non-empty remainder, each
\* emitted row is in exactly one submission, the buffer is empty after each
\* periodic submission, and one commit follows the last submission; the
\* final submission of the remainder leaves the buffer as it is.
C14_BulkCopy ==
    /\ CopySubmissions
    /\ (IsCopy /\ load_committed /\ Len(emitted) % FlushRows # 0) =>
          buffer = submissions[Len(submissions)]

\* A bulk copy committed after a periodic submission and a final submission
\* of a shorter remainder, which is still in the buffer.
C14_Witness ==
    /\ IsCopy
    /\ load_committed
    /\ pc = "done"
    /\ Len(submissions) >= 2
    /\ Len(submissions[1]) = FlushRows
    /\ Len(submissions[Len(submissions)]) < FlushRows
    /\ buffer # <<>>

C16_TempFilesDeleted ==
    pc = "done" => temp_files = {}

\* C17: a creation statement executed over a direct connection creates an
\* index only on attributes that are columns of the table it creates, so
\* that it does not depend on reg_id_enr and country_pays being among the
\* run's columns.
C17_IndexesOnlyOnColumns ==
    create_sql.how = "executed" =>
        create_sql.indexes \subseteq ColumnSet(create_sql.columns)

\* A letter or a digit.
IsAlnum(c) == IsWordChar(c) /\ c # "_"

\* Length of the run of letters and digits a name starts with.
RECURSIVE RunLen(_)
RunLen(name) ==
    IF name = <<>> \/ ~IsAlnum(Head(name)) THEN 0
    ELSE 1 + RunLen(Tail(name))

\* The maximal runs of letters and digits of a name, in order.
RECURSIVE Runs(_)
Runs(name) ==
    IF name = <<>> THEN <<>>
    ELSE IF RunLen(name) = 0 THEN Runs(Tail(name))
    ELSE <<SubSeq(name, 1, RunLen(name))>>
            \o Runs(SubSeq(name, RunLen(name) + 1, Len(name)))

\* C18: every normalised name is a fixed point of snake_case, and two raw
\* names of the header row that consist of the same runs of letters and
\* digits, whatever separates them, have the same normalised name.
C18_SnakeCaseIdempotent ==
    headers # <<>> =>
        /\ \A i \in 1..Len(headers) : snake_case(headers[i]) = headers[i]
        /\ \A i, j \in 1..Len(headers) :
              Runs(raw_headers[i]) = Runs(raw_headers[j])
                  => headers[i] = headers[j]

\* The filter has gone through the file to its end.
FilterFinished ==
    /\ passes > 0
    /\ reader_pos = Len(csv_rows)
    /\ ~DecodeError

\* The data rows of the file that the filter did not emit.
ExcludedRows == { i \in 1..Len(csv_rows) : ~WasEmitted(i) }

\* C19: when the filter with a date column finishes, total_count is the
\* number of data rows of the file, filtered_count is the number of rows it
\* emitted, and the emitted and the excluded rows add up to total_count.
C19_RowCounts ==
    (FilterFinished /\ date_col_idx # 0) =>
        /\ total_count = Len(csv_rows)
        /\ filtered_count = Len(emitted)
        /\ Len(emitted) + Cardinality(ExcludedRows) = total_count

\* C20: the cutoff is the instant the run began (the import of the script)
\* minus 730 days and is never assigned again; every row the filter reads
\* whose date parses is emitted exactly when its date is at or after that
\* cutoff, whatever the clock shows by then.
C20_CutoffFixed ==
    /\ CUTOFF_DATE = CutoffOf(now)
    /\ [][/\ CUTOFF_DATE' = CUTOFF_DATE
          /\ (reader_pos' = reader_pos + 1 /\ DateParses(reader_pos + 1)) =>
                (emitted' = Append(emitted, reader_pos + 1)
                    <=> InstantGe(ParsedDate(reader_pos + 1), CUTOFF_DATE))
         ]_vars

\* The filter finished after the clock had moved on from the instant of the
\* import, and a row dated exactly at the cutoff was emitted.
C20_Witness ==
    /\ variant = "filter"
    /\ pc = "done"
    /\ CutoffOf(now) # CUTOFF_DATE
    /\ \E i \in 1..reader_pos :
          DateParses(i) /\ ParsedDate(i) = CUTOFF_DATE /\ WasEmitted(i)


\* The rows the filter has emitted are in file order, none of them twice.
StrictlyIncreasing(s) == \A j \in 1..(Len(s) - 1) : s[j] < s[j + 1]

\* C21: in the fallback and the REST variants the filter emits each data row
\* of the file at most once, in file order, also when a read fails to decode
\* partway through the file and the filter goes on to the next encoding.
C21_EmittedOnceInFileOrder ==
    variant \in {"enhanced", "rest"} => StrictlyIncreasing(emitted)


\* The run has not been in touch with the destination: no probe, no
\* connection attempt, no client, no statement and no row sent, and
\* lobby_staging is as the run found it.
NoContact ==
    /\ probes = <<>>
    /\ attempts = <<>>
    /\ postgres_conn = "none"
    /\ ~rest_client
    /\ connection_method = "none"
    /\ create_sql = NoStatement
    /\ table_query = "none"
    /\ ddl_count = 0
    /\ submissions = <<>>
    /\ txn = NoTable
    /\ table = table_before

\* C22: extraction precedes any contact with the destination: up to the end
\* of the extraction nothing was probed or sent, and when the archive has no
\* .csv member or the header row cannot be decoded the run has exited with
\* status 1 with the destination untouched.
C22_ExtractionBeforeDestination ==
    /\ pc \in {"download", "extract"} => NoContact
    /\ extract_failure # "none" =>
          pc = "done" /\ exit_code = 1 /\ ~summary_printed /\ NoContact

\* An archive without a .csv member ended a run whose destination table
\* held rows of an earlier run.
C22_Witness ==
    /\ extract_failure = "no_csv"
    /\ pc = "done"
    /\ table.exists /\ table.rows # <<>>


\* C23: over a direct connection the committed lobby_staging is
\* all-or-nothing in the rows of the run: the drop-and-recreate is committed
\* before a row is sent, the rows are committed once, at the end, and so the
\* committed table holds no row of the run or every row the filter emitted;
\* between the committed recreation and the commit of the load (and so after
\* a load that failed midway) the table exists and is empty.
C23_AllOrNothing ==
    IsCopy =>
        /\ submissions # <<>> => ddl_count > 0
        /\ \/ ~HoldsRowOfThisRun(table)
           \/ /\ load_committed
              /\ reader_pos = Len(csv_rows)
              /\ table.rows = EmittedRows
        /\ (ddl_count > 0 /\ ~load_committed) => table = Recreated(headers)

\* A load over a direct connection failed midway: rows were copied into the
\* transaction, a later submission or the commit raised, and the run ended
\* with the committed table recreated and empty where it held rows before.
C23_Witness ==
    /\ IsCopy
    /\ pc = "done"
    /\ ~load_committed
    /\ Len(submissions) >= 2
    /\ table_before.rows # <<>>
    /\ table = Recreated(headers)


\* The records the HTTP batched insert has submitted.
SubmittedRecords == Flatten(submissions)

\* C24: every record the HTTP batched insert submits has one entry per
\* column descriptor: its keys are the normalised header names, and the key
\* of each column maps to the field of the row at that column's position,
\* whatever the number of fields of the row.
C24_RecordPerColumn ==
    IsHttp =>
        \A k \in 1..Len(SubmittedRecords) :
            LET rec == SubmittedRecords[k]
                row == csv_rows[rec.idx]
            IN  /\ DOMAIN rec.fields = ColumnSet(headers)
                /\ \A i \in 1..Len(headers) :
                      /\ i <= Len(row)
                      /\ rec.fields[headers[i]] = row[i]

=============================================================================
